---- MODULE Spec2Model ----
(***************************************************************************)
(* Model of src/app.py: three in-memory caches with a shared TTL           *)
(* (product_cache, auction_cache, product_data_cache), the three request   *)
(* handlers that read and write them (GET /auctions, POST /product-data,   *)
(* GET /single-product) and the periodic sweeper clean_expired_cache.      *)
(*                                                                         *)
(* The handlers are asyncio coroutines: one action of the model is the     *)
(* code a coroutine runs between two suspension points (await).            *)
(*                                                                         *)
(* Encodings                                                               *)
(*   - a product link is a natural number; 0 is the empty string "" and    *)
(*     the numeric order is the lexicographic order of the strings;        *)
(*   - Python's None is the empty tuple, a value v that may be None is     *)
(*     carried as <<v>>;                                                   *)
(*   - hashlib.md5(json.dumps(urls)) is taken to be injective, so the      *)
(*     digest of a list is represented by the list that was serialised;    *)
(*   - time.time() is the variable clock (seconds, integer);               *)
(*   - a scraped record carries fetched_at, the time of the Transport call *)
(*     that produced it: it stands for the page content at that time.      *)
(***************************************************************************)
EXTENDS Integers, Sequences, FiniteSets, TLC

\* ---------------------------------------------------------------- bounds
NumProcs == 2          \* request coroutines that may be in flight together
NumLinks == 2          \* distinct non-empty product links
MaxLen == 2            \* longest auction_list of a POST /product-data
MaxPages == 2          \* largest pages parameter of GET /auctions
MaxItems == 1          \* most auctions listed on one search page
MaxClock == 601        \* the clock stops advancing past this time
MaxRequests == 2       \* requests received in one behaviour
MaxLoad == 2           \* links and pages named by the requests served together
SeqClock == 1202       \* as MaxClock, when the requests come one at a time
SeqRequests == 3       \* as MaxRequests, when the requests come one at a time
SeqLoad == 1           \* as MaxLoad, when the requests come one at a time

\* ------------------------------------------------------- program constants
CACHE_EXPIRY_TIME == 600
SWEEP_INTERVAL == 60

\* ------------------------------------------------------------------ state
VARIABLES
    clock,               \* time.time()
    product_cache,       \* link -> [data, timestamp]
    auction_cache,       \* <<search_term, pages>> -> [data, timestamp]
    product_data_cache,  \* batch key -> [data, timestamp]
    next_sweep,          \* time at which the sweeper's sleep ends
    pc,                  \* position of each request coroutine
    req,                 \* the request a coroutine serves
    cache_key,           \* local cache_key of the handler
    cached_data,         \* local cached_data of the handler
    to_fetch,            \* local to_fetch (batch) / page numbers (auctions)
    product_data,        \* local product_data (batch)
    new_data,            \* results of the gathered tasks, None while pending
    response,            \* what the handler returned
    transport,           \* Transport calls made for the current request
    started,             \* requests received so far
    env                  \* the environment: its horizon, requests and load

vars == <<clock, product_cache, auction_cache, product_data_cache, next_sweep,
          pc, req, cache_key, cached_data, to_fetch, product_data, new_data,
          response, transport, started, env>>

caches == <<product_cache, auction_cache, product_data_cache>>
locals == <<cache_key, cached_data, to_fetch, product_data, new_data>>

Procs == 1..NumProcs
Links == 0..NumLinks
Urls == 1..NumLinks
SearchTerms == {"iphone"}
Outcomes == {"ok", "status", "exception"}

None == <<>>
Some(v) == <<v>>

\* The log of the Transport calls a request launches: what each call is
\* for, and its outcome once it has completed.
Calls(targets) == [i \in 1..Len(targets) |-> [target |-> targets[i], outcome |-> "pending"]]

BoundedSeq(S, n) == UNION {[1..k -> S] : k \in 0..n}
AuctionLists == BoundedSeq(Links, MaxLen)

\* A stored or returned value carries its Python type: the record of a
\* product is a dict, the records of a batch and the auctions are a list.
dict(d) == [dict |-> d]
list(l) == [list |-> l]

\* ------------------------------------------------------------ cache store
\* Fault variants of get_from_cache: the boundary age counted as expired;
\* no TTL test at all; the expired entry deleted by the read.
get_from_cache_strict(cache, key, now) ==
    [ret |-> IF key \in DOMAIN cache
                  /\ now - cache[key].timestamp < CACHE_EXPIRY_TIME
             THEN Some(cache[key].data)
             ELSE None,
     cache |-> cache]

get_from_cache_no_ttl(cache, key, now) ==
    [ret |-> IF key \in DOMAIN cache THEN Some(cache[key].data) ELSE None,
     cache |-> cache]

get_from_cache_evicting(cache, key, now) ==
    IF key \in DOMAIN cache /\ now - cache[key].timestamp > CACHE_EXPIRY_TIME
    THEN [ret |-> None, cache |-> [k \in DOMAIN cache \ {key} |-> cache[k]]]
    ELSE [ret |-> IF key \in DOMAIN cache THEN Some(cache[key].data) ELSE None,
          cache |-> cache]

\* Fault variant of get_from_cache: a hit restarts the age of the entry.
get_from_cache_touching(cache, key, now) ==
    IF key \in DOMAIN cache /\ now - cache[key].timestamp <= CACHE_EXPIRY_TIME
    THEN [ret |-> Some(cache[key].data),
          cache |-> [cache EXCEPT ![key].timestamp = now]]
    ELSE [ret |-> None, cache |-> cache]

\* get_from_cache(cache, key) at time now: the returned value and the cache
\* as the call leaves it.
get_from_cache(cache, key, now) ==
    [ret |-> IF key \in DOMAIN cache
                  /\ now - cache[key].timestamp <= CACHE_EXPIRY_TIME
             THEN Some(cache[key].data)
             ELSE None,
     cache |-> cache]

\* Fault variant of store_in_cache: an existing entry is kept (setdefault).
store_if_absent(cache, key, data, now) ==
    [k \in DOMAIN cache \cup {key} |->
        IF k \in DOMAIN cache THEN cache[k] ELSE [data |-> data, timestamp |-> now]]

\* store_in_cache(cache, key, data) at time now: the cache after the call.
store_in_cache(cache, key, data, now) ==
    [k \in DOMAIN cache \cup {key} |->
        IF k = key THEN [data |-> data, timestamp |-> now] ELSE cache[k]]

\* Fault variant of the sweep: the boundary age counted as expired.
clean_one_cache_inclusive(cache, current_time) ==
    [k \in {key \in DOMAIN cache :
                current_time - cache[key].timestamp < CACHE_EXPIRY_TIME} |-> cache[k]]

\* One pass of clean_expired_cache over one cache, at captured current_time.
clean_one_cache(cache, current_time) ==
    LET expired_keys == {key \in DOMAIN cache :
                            current_time - cache[key].timestamp > CACHE_EXPIRY_TIME}
    IN  [k \in DOMAIN cache \ expired_keys |-> cache[k]]

\* Python truthiness of an optional dict with at least one key / of an
\* optional list (`if cached_data:`).
truthy_dict(opt) == opt # None
truthy_list(opt) == opt # None /\ Len(opt[1].list) > 0

\* ------------------------------------------------------------- transport
\* Fault variant of fetch_product_data: a failure of the Transport is raised
\* to the caller, as fetch_page does.
fetch_product_data_raising(url, outcome, now) ==
    [raised |-> outcome # "ok",
     value |-> [product_link |-> url, fetched_at |-> now, details |-> "scraped"]]

\* fetch_product_data: every Transport outcome becomes a returned record.
fetch_product_data(url, outcome, now) ==
    [raised |-> FALSE,
     value |-> CASE outcome = "ok" ->
                      [product_link |-> url, fetched_at |-> now, details |-> "scraped"]
                 [] outcome = "status" ->
                      [product_link |-> url, fetched_at |-> now, error |-> "Status code"]
                 [] OTHER ->
                      [product_link |-> url, fetched_at |-> now, error |-> "exception"]]

HasError(record) == "error" \in DOMAIN record

\* Fault variant of fetch_page: a failed page counts as a page without
\* auctions.
fetch_page_swallowing(page, outcome, items, now) ==
    [raised |-> FALSE,
     value |-> [page |-> page, items |-> IF outcome = "ok" THEN items ELSE 0,
                fetched_at |-> now]]

\* fetch_page: the text of the page on status 200; a non-200 status raises
\* HTTPException(status_code=response.status) and a failure of the Transport
\* raises its own exception.  The text is the number of auctions it lists.
fetch_page(page, outcome, items, now) ==
    CASE outcome = "ok" ->
            [raised |-> FALSE, value |-> [page |-> page, items |-> items, fetched_at |-> now]]
      [] outcome = "status" ->
            [raised |-> TRUE, status_code |-> 404]
      [] OTHER ->
            [raised |-> TRUE, status_code |-> 500]

RECURSIVE parse_auctions(_)
\* Lines 234-268: the auctions of the pages, in page order.
parse_auctions(pages_content) ==
    IF pages_content = <<>> THEN <<>>
    ELSE LET content == Head(pages_content)
         IN  [i \in 1..content.items |->
                 [title |-> i, page |-> content.page, fetched_at |-> content.fetched_at]]
             \o parse_auctions(Tail(pages_content))

\* cache_key = f"{search_term}_{pages}": pages is an integer, so the text
\* determines both parts.
auction_cache_key(search_term, pages) == [search_term |-> search_term, pages |-> pages]

\* ------------------------------------------------------ batch key, order
RECURSIVE insert_sorted(_, _)
\* Insert the pair x = <<key, value>> after every pair whose key is <= its
\* key: a stable insertion.
insert_sorted(s, x) ==
    IF s = <<>> THEN <<x>>
    ELSE IF x[1] < Head(s)[1] THEN <<x>> \o s
         ELSE <<Head(s)>> \o insert_sorted(Tail(s), x)

RECURSIVE sort_pairs(_)
sort_pairs(s) ==
    IF s = <<>> THEN <<>>
    ELSE insert_sorted(sort_pairs(SubSeq(s, 1, Len(s) - 1)), s[Len(s)])

\* Python's sorted(s, key=...): stable, ascending; keys[i] is the key of s[i].
sorted(s, keys) ==
    LET done == sort_pairs([i \in 1..Len(s) |-> <<keys[i], s[i]>>])
    IN  [i \in 1..Len(s) |-> done[i][2]]

\* list.index(x): position of the first occurrence.
index(s, x) == CHOOSE i \in 1..Len(s) : s[i] = x /\ \A j \in 1..(i - 1) : s[j] # x

\* [auction.product_link for auction in auction_list if auction.product_link]
non_empty_links(auction_list) == SelectSeq(auction_list, LAMBDA l : l # 0)

\* Fault variants of urls: the links in request order; the links sorted and
\* deduplicated.
unsorted_urls(auction_list) == non_empty_links(auction_list)

deduplicated_urls(auction_list) ==
    LET links == non_empty_links(auction_list)
        S == {links[i] : i \in 1..Len(links)}
    IN  CHOOSE s \in [1..Cardinality(S) -> S] :
            \A i, j \in 1..Cardinality(S) : i < j => s[i] < s[j]

\* urls = sorted([...]) of get_product_data_endpoint.
sorted_urls(auction_list) ==
    LET links == non_empty_links(auction_list) IN sorted(links, links)

\* cache_key = md5(json.dumps(urls)).hexdigest(), the digest being injective.
batch_cache_key(auction_list) == [md5 |-> sorted_urls(auction_list)]

\* Fault variant of partition: every link is fetched, cached or not.
partition_refetching(links, cache, now) ==
    [product_data |-> <<>>, to_fetch |-> non_empty_links(links), cache |-> cache]

RECURSIVE partition(_, _, _)
\* The loop of lines 322-334 over the links: product_data of the cached
\* links, to_fetch of the others, and product_cache as the reads leave it.
partition(links, cache, now) ==
    IF links = <<>> THEN [product_data |-> <<>>, to_fetch |-> <<>>, cache |-> cache]
    ELSE LET rest == partition(SubSeq(links, 1, Len(links) - 1), cache, now)
             url == links[Len(links)]
             got == get_from_cache(rest.cache, url, now)
         IN  IF url = 0 THEN rest
             ELSE IF truthy_dict(got.ret)
                  THEN [product_data |-> Append(rest.product_data, got.ret[1].dict),
                        to_fetch |-> rest.to_fetch,
                        cache |-> got.cache]
                  ELSE [product_data |-> rest.product_data,
                        to_fetch |-> Append(rest.to_fetch, url),
                        cache |-> got.cache]

\* sorted(product_data, key=lambda x: urls.index(x["product_link"]))
sort_results(data, urls) ==
    sorted(data, [i \in 1..Len(data) |-> index(urls, data[i].product_link)])

\* Fault variant of store_all: the fetched records are not stored.
store_all_skipped(cache, keys, values, now) == cache

RECURSIVE store_all(_, _, _, _)
\* for url, result in zip(to_fetch, new_data): store_in_cache(product_cache, ...)
store_all(cache, keys, values, now) ==
    IF keys = <<>> THEN cache
    ELSE store_all(store_in_cache(cache, Head(keys), dict(Head(values)), now),
                   Tail(keys), Tail(values), now)

\* ------------------------------------------------------------------- init
NoRequest == [kind |-> "none"]
NoResponse == [status |-> 0]

Init ==
    /\ clock = 0
    /\ product_cache = <<>>
    /\ auction_cache = <<>>
    /\ product_data_cache = <<>>
    /\ next_sweep = 0
    /\ pc = [p \in Procs |-> "idle"]
    /\ req = [p \in Procs |-> NoRequest]
    /\ cache_key = [p \in Procs |-> None]
    /\ cached_data = [p \in Procs |-> None]
    /\ to_fetch = [p \in Procs |-> <<>>]
    /\ product_data = [p \in Procs |-> <<>>]
    /\ new_data = [p \in Procs |-> <<>>]
    /\ response = [p \in Procs |-> NoResponse]
    /\ transport = [p \in Procs |-> <<>>]
    /\ started = 0
    /\ env = [horizon |-> MaxClock, requests |-> MaxRequests, load |-> MaxLoad,
              one_at_a_time |-> FALSE]

\* The same program with an environment that sends its requests one at a
\* time and lets time pass only between two requests, for longer.
InitSeq ==
    /\ clock = 0
    /\ product_cache = <<>>
    /\ auction_cache = <<>>
    /\ product_data_cache = <<>>
    /\ next_sweep = 0
    /\ pc = [p \in Procs |-> "idle"]
    /\ req = [p \in Procs |-> NoRequest]
    /\ cache_key = [p \in Procs |-> None]
    /\ cached_data = [p \in Procs |-> None]
    /\ to_fetch = [p \in Procs |-> <<>>]
    /\ product_data = [p \in Procs |-> <<>>]
    /\ new_data = [p \in Procs |-> <<>>]
    /\ response = [p \in Procs |-> NoResponse]
    /\ transport = [p \in Procs |-> <<>>]
    /\ started = 0
    /\ env = [horizon |-> SeqClock, requests |-> SeqRequests, load |-> SeqLoad,
              one_at_a_time |-> TRUE]

Idle(p) == pc[p] \in {"idle", "done"}

\* A request is received by a coroutine that serves none.
\* The links or pages a request names.
Size(r) ==
    CASE r.kind = "single" -> 1
      [] r.kind = "batch" -> Len(r.auction_list)
      [] r.kind = "auctions" -> IF r.pages > 0 THEN r.pages ELSE 0
      [] OTHER -> 0

RECURSIVE LoadOf(_)
LoadOf(S) ==
    IF S = {} THEN 0
    ELSE LET q == CHOOSE q \in S : TRUE
         IN  (IF Idle(q) THEN 0 ELSE Size(req[q])) + LoadOf(S \ {q})

\* A request is received by the first coroutine that serves none; the
\* environment sends env.requests requests and keeps the load within env.load.
Receive(p, r) ==
    /\ Idle(p)
    /\ \A q \in Procs : q < p => ~Idle(q)
    /\ env.one_at_a_time => \A q \in Procs : Idle(q)
    /\ LoadOf(Procs) + Size(r) <= env.load
    /\ started < env.requests
    /\ started' = started + 1
    /\ req' = [req EXCEPT ![p] = r]
    /\ UNCHANGED env

\* ------------------------------------------------------------------ clock
\* Time passes while the coroutines are suspended.
Tick ==
    \E d \in {CACHE_EXPIRY_TIME, CACHE_EXPIRY_TIME + 1} :
        /\ clock + d <= env.horizon
        /\ env.one_at_a_time => \A q \in Procs : Idle(q)
        /\ clock' = clock + d
        /\ UNCHANGED <<caches, next_sweep, pc, req, locals, response, transport, started, env>>

\* ---------------------------------------------------------------- sweeper
\* Fault variant of the sweeper: the pass leaves the batch cache out.
clean_expired_cache_two ==
    /\ clock >= next_sweep
    /\ product_cache' = clean_one_cache(product_cache, clock)
    /\ auction_cache' = clean_one_cache(auction_cache, clock)
    /\ next_sweep' = clock + SWEEP_INTERVAL
    /\ UNCHANGED <<clock, product_data_cache, pc, req, locals, response, transport,
                   started, env>>

\* One iteration of the loop of clean_expired_cache: the pass over the three
\* caches with one captured current_time, then asyncio.sleep(60).
clean_expired_cache ==
    /\ clock >= next_sweep
    /\ product_cache' = clean_one_cache(product_cache, clock)
    /\ auction_cache' = clean_one_cache(auction_cache, clock)
    /\ product_data_cache' = clean_one_cache(product_data_cache, clock)
    /\ next_sweep' = clock + SWEEP_INTERVAL
    /\ UNCHANGED <<clock, pc, req, locals, response, transport, started, env>>

\* ------------------------------------------------- GET /single-product
\* Fault variant of single_product_start: a miss joins the fetch another
\* request has in flight for the same link instead of calling the Transport.
single_product_start_coalescing(p, url) ==
    /\ Receive(p, [kind |-> "single", product_link |-> url])
    /\ LET got == get_from_cache(product_cache, url, clock)
           in_flight == \E q \in Procs : pc[q] = "single_fetch" /\ req[q].product_link = url
       IN  /\ cache_key' = [cache_key EXCEPT ![p] = None]
           /\ cached_data' = [cached_data EXCEPT ![p] = got.ret]
           /\ product_cache' = got.cache
           /\ to_fetch' = [to_fetch EXCEPT ![p] = <<>>]
           /\ product_data' = [product_data EXCEPT ![p] = <<>>]
           /\ new_data' = [new_data EXCEPT ![p] = <<>>]
           /\ IF truthy_dict(got.ret)
              THEN /\ pc' = [pc EXCEPT ![p] = "done"]
                   /\ response' = [response EXCEPT ![p] = [status |-> 200, body |-> got.ret[1]]]
                   /\ transport' = [transport EXCEPT ![p] = <<>>]
              ELSE /\ pc' = [pc EXCEPT ![p] = "single_fetch"]
                   /\ response' = [response EXCEPT ![p] = NoResponse]
                   /\ transport' = [transport EXCEPT ![p] =
                                       IF in_flight THEN <<>> ELSE Calls(<<url>>)]
    /\ UNCHANGED <<clock, auction_cache, product_data_cache, next_sweep>>

\* Lines 366-368: the cache check, and the return on a hit.
single_product_start(p, url) ==
    /\ Receive(p, [kind |-> "single", product_link |-> url])
    /\ LET got == get_from_cache(product_cache, url, clock)
       IN  /\ cache_key' = [cache_key EXCEPT ![p] = None]
           /\ cached_data' = [cached_data EXCEPT ![p] = got.ret]
           /\ product_cache' = got.cache
           /\ to_fetch' = [to_fetch EXCEPT ![p] = <<>>]
           /\ product_data' = [product_data EXCEPT ![p] = <<>>]
           /\ new_data' = [new_data EXCEPT ![p] = <<>>]
           /\ IF truthy_dict(got.ret)
              THEN /\ pc' = [pc EXCEPT ![p] = "done"]
                   /\ response' = [response EXCEPT ![p] = [status |-> 200, body |-> got.ret[1]]]
                   /\ transport' = [transport EXCEPT ![p] = <<>>]
              ELSE /\ pc' = [pc EXCEPT ![p] = "single_fetch"]
                   /\ response' = [response EXCEPT ![p] = NoResponse]
                   /\ transport' = [transport EXCEPT ![p] = Calls(<<url>>)]
    /\ UNCHANGED <<clock, auction_cache, product_data_cache, next_sweep>>

\* Fault variant of single_product_finish: the write also drops the batch
\* entries whose key names the link.
single_product_finish_invalidating(p, outcome) ==
    /\ pc[p] = "single_fetch"
    /\ LET url == req[p].product_link
           result == fetch_product_data(url, outcome, clock)
           kept == {k \in DOMAIN product_data_cache : \A i \in 1..Len(k.md5) : k.md5[i] # url}
       IN  /\ transport' = [transport EXCEPT ![p][1].outcome = outcome]
           /\ product_cache' = store_in_cache(product_cache, url, dict(result.value), clock)
           /\ product_data_cache' = [k \in kept |-> product_data_cache[k]]
           /\ response' = [response EXCEPT ![p] = [status |-> 200, body |-> dict(result.value)]]
           /\ pc' = [pc EXCEPT ![p] = "done"]
    /\ UNCHANGED <<clock, auction_cache, next_sweep, req, locals, started, env>>

\* Lines 371-375: the awaited fetch returns, its result is stored and returned.
single_product_finish(p, outcome) ==
    /\ pc[p] = "single_fetch"
    /\ LET url == req[p].product_link
           result == fetch_product_data(url, outcome, clock)
       IN  /\ transport' = [transport EXCEPT ![p][1].outcome = outcome]
           /\ IF result.raised
              THEN /\ response' = [response EXCEPT ![p] = [status |-> 500]]
                   /\ UNCHANGED product_cache
              ELSE /\ product_cache' = store_in_cache(product_cache, url, dict(result.value), clock)
                   /\ response' = [response EXCEPT ![p] = [status |-> 200, body |-> dict(result.value)]]
           /\ pc' = [pc EXCEPT ![p] = "done"]
    /\ UNCHANGED <<clock, auction_cache, product_data_cache, next_sweep, req,
                   locals, started, env>>

\* --------------------------------------------------- POST /product-data
\* Lines 306-335 and, when nothing is left to fetch, 350-354: no await
\* separates them.
get_product_data_endpoint_start(p, auction_list) ==
    /\ Receive(p, [kind |-> "batch", auction_list |-> auction_list])
    /\ LET urls == sorted_urls(auction_list)
           key == batch_cache_key(auction_list)
           got == get_from_cache(product_data_cache, key, clock)
           part == partition(auction_list, product_cache, clock)
           sorted_data == sort_results(part.product_data, urls)
       IN  /\ cache_key' = [cache_key EXCEPT ![p] = Some(key)]
           /\ cached_data' = [cached_data EXCEPT ![p] = got.ret]
           /\ IF truthy_list(got.ret)
              THEN /\ pc' = [pc EXCEPT ![p] = "done"]
                   /\ response' = [response EXCEPT ![p] = [status |-> 200, body |-> got.ret[1]]]
                   /\ product_data_cache' = got.cache
                   /\ to_fetch' = [to_fetch EXCEPT ![p] = <<>>]
                   /\ product_data' = [product_data EXCEPT ![p] = <<>>]
                   /\ new_data' = [new_data EXCEPT ![p] = <<>>]
                   /\ transport' = [transport EXCEPT ![p] = <<>>]
                   /\ UNCHANGED product_cache
              ELSE /\ product_cache' = part.cache
                   /\ transport' = [transport EXCEPT ![p] = Calls(part.to_fetch)]
                   /\ to_fetch' = [to_fetch EXCEPT ![p] = part.to_fetch]
                   /\ product_data' = [product_data EXCEPT ![p] =
                                          IF part.to_fetch = <<>> THEN <<>> ELSE part.product_data]
                   /\ new_data' = [new_data EXCEPT ![p] = [i \in 1..Len(part.to_fetch) |-> None]]
                   /\ IF part.to_fetch = <<>>
                      THEN /\ product_data_cache' = store_in_cache(got.cache, key, list(sorted_data), clock)
                           /\ response' = [response EXCEPT ![p] = [status |-> 200, body |-> list(sorted_data)]]
                           /\ pc' = [pc EXCEPT ![p] = "done"]
                      ELSE /\ product_data_cache' = got.cache
                           /\ response' = [response EXCEPT ![p] = NoResponse]
                           /\ pc' = [pc EXCEPT ![p] = "batch_gather"]
    /\ UNCHANGED <<clock, auction_cache, next_sweep>>

\* One of the gathered fetch_product_data tasks completes (lines 282-298).
fetch_product_data_done(p, i, outcome) ==
    /\ pc[p] = "batch_gather"
    /\ i \in 1..Len(new_data[p])
    /\ new_data[p][i] = None
    /\ new_data' = [new_data EXCEPT ![p][i] = Some(fetch_product_data(to_fetch[p][i], outcome, clock))]
    /\ transport' = [transport EXCEPT ![p][i].outcome = outcome]
    /\ UNCHANGED <<clock, caches, next_sweep, pc, req, cache_key, cached_data,
                   to_fetch, product_data, response, started, env>>

\* Lines 342-347: asyncio.gather returns (or re-raises the first exception a
\* task raised), the results are stored one by one and appended.
get_product_data_endpoint_gather(p) ==
    /\ pc[p] = "batch_gather"
    /\ LET raised == \E i \in 1..Len(new_data[p]) : new_data[p][i] # None /\ new_data[p][i][1].raised
           values == [i \in 1..Len(new_data[p]) |-> new_data[p][i][1].value]
       IN  /\ raised \/ \A i \in 1..Len(new_data[p]) : new_data[p][i] # None
           /\ IF raised
              THEN /\ pc' = [pc EXCEPT ![p] = "done"]
                   /\ response' = [response EXCEPT ![p] = [status |-> 500]]
                   /\ to_fetch' = [to_fetch EXCEPT ![p] = <<>>]
                   /\ product_data' = [product_data EXCEPT ![p] = <<>>]
                   /\ new_data' = [new_data EXCEPT ![p] = <<>>]
                   /\ UNCHANGED product_cache
              ELSE /\ pc' = [pc EXCEPT ![p] = "batch_assemble"]
                   /\ product_cache' = store_all(product_cache, to_fetch[p], values, clock)
                   /\ product_data' = [product_data EXCEPT ![p] = @ \o values]
                   /\ UNCHANGED <<response, to_fetch, new_data>>
    /\ UNCHANGED <<clock, auction_cache, product_data_cache, next_sweep, req,
                   cache_key, cached_data, transport, started, env>>

\* Lines 349-354, after the session is closed: sort, store the batch, return.
get_product_data_endpoint_finish(p) ==
    /\ pc[p] = "batch_assemble"
    /\ LET urls == sorted_urls(req[p].auction_list)
           sorted_data == sort_results(product_data[p], urls)
       IN  /\ product_data_cache' = store_in_cache(product_data_cache, cache_key[p][1], list(sorted_data), clock)
           /\ response' = [response EXCEPT ![p] = [status |-> 200, body |-> list(sorted_data)]]
    /\ pc' = [pc EXCEPT ![p] = "done"]
    /\ to_fetch' = [to_fetch EXCEPT ![p] = <<>>]
    /\ product_data' = [product_data EXCEPT ![p] = <<>>]
    /\ new_data' = [new_data EXCEPT ![p] = <<>>]
    /\ UNCHANGED <<clock, product_cache, auction_cache, next_sweep, req,
                   cache_key, cached_data, transport, started, env>>

\* ---------------------------------------------------------- GET /auctions
\* Lines 219-231: the cache check, the return on a hit, the page tasks.
get_auctions_start(p, search_term, pages) ==
    /\ Receive(p, [kind |-> "auctions", search_term |-> search_term, pages |-> pages])
    /\ LET key == auction_cache_key(search_term, pages)
           got == get_from_cache(auction_cache, key, clock)
       IN  /\ cache_key' = [cache_key EXCEPT ![p] = Some(key)]
           /\ cached_data' = [cached_data EXCEPT ![p] = got.ret]
           /\ auction_cache' = got.cache
           /\ product_data' = [product_data EXCEPT ![p] = <<>>]
           /\ IF truthy_list(got.ret)
              THEN /\ pc' = [pc EXCEPT ![p] = "done"]
                   /\ response' = [response EXCEPT ![p] = [status |-> 200, body |-> got.ret[1]]]
                   /\ to_fetch' = [to_fetch EXCEPT ![p] = <<>>]
                   /\ new_data' = [new_data EXCEPT ![p] = <<>>]
                   /\ transport' = [transport EXCEPT ![p] = <<>>]
              ELSE /\ pc' = [pc EXCEPT ![p] = "auctions_gather"]
                   /\ transport' = [transport EXCEPT ![p] = Calls([i \in 1..pages |-> i])]
                   /\ response' = [response EXCEPT ![p] = NoResponse]
                   /\ to_fetch' = [to_fetch EXCEPT ![p] = [i \in 1..pages |-> i]]
                   /\ new_data' = [new_data EXCEPT ![p] = [i \in 1..pages |-> None]]
    /\ UNCHANGED <<clock, product_cache, product_data_cache, next_sweep>>

\* One of the gathered fetch_page tasks completes (lines 203-207).
fetch_page_done(p, i, outcome, items) ==
    /\ pc[p] = "auctions_gather"
    /\ i \in 1..Len(new_data[p])
    /\ new_data[p][i] = None
    /\ new_data' = [new_data EXCEPT ![p][i] = Some(fetch_page(to_fetch[p][i], outcome, items, clock))]
    /\ transport' = [transport EXCEPT ![p][i].outcome = outcome]
    /\ UNCHANGED <<clock, caches, next_sweep, pc, req, cache_key, cached_data,
                   to_fetch, product_data, response, started, env>>

\* Line 232: asyncio.gather returns the pages, or re-raises the exception a
\* task raised, which ends the request with that error.
get_auctions_gather(p) ==
    /\ pc[p] = "auctions_gather"
    /\ LET failed == {i \in 1..Len(new_data[p]) : new_data[p][i] # None /\ new_data[p][i][1].raised}
       IN  \/ /\ failed = {}
              /\ \A i \in 1..Len(new_data[p]) : new_data[p][i] # None
              /\ pc' = [pc EXCEPT ![p] = "auctions_parse"]
              /\ UNCHANGED <<response, to_fetch, new_data>>
           \/ \E i \in failed :
              /\ pc' = [pc EXCEPT ![p] = "done"]
              /\ response' = [response EXCEPT ![p] = [status |-> new_data[p][i][1].status_code]]
              /\ to_fetch' = [to_fetch EXCEPT ![p] = <<>>]
              /\ new_data' = [new_data EXCEPT ![p] = <<>>]
    /\ UNCHANGED <<clock, caches, next_sweep, req, cache_key, cached_data,
                   product_data, transport, started, env>>

\* Lines 234-272: the pages are parsed, the auctions stored and returned.
get_auctions_finish(p) ==
    /\ pc[p] = "auctions_parse"
    /\ LET auctions == parse_auctions([i \in 1..Len(new_data[p]) |-> new_data[p][i][1].value])
       IN  /\ auction_cache' = store_in_cache(auction_cache, cache_key[p][1], list(auctions), clock)
           /\ response' = [response EXCEPT ![p] = [status |-> 200, body |-> list(auctions)]]
    /\ pc' = [pc EXCEPT ![p] = "done"]
    /\ to_fetch' = [to_fetch EXCEPT ![p] = <<>>]
    /\ new_data' = [new_data EXCEPT ![p] = <<>>]
    /\ UNCHANGED <<clock, product_cache, product_data_cache, next_sweep, req,
                   cache_key, cached_data, product_data, transport, started, env>>

\* ------------------------------------------------------------------- next
Next ==
    \/ Tick
    \/ clean_expired_cache
    \/ \E p \in Procs, url \in Urls : single_product_start(p, url)
    \/ \E p \in Procs, outcome \in Outcomes : single_product_finish(p, outcome)
    \/ \E p \in Procs, auction_list \in AuctionLists : get_product_data_endpoint_start(p, auction_list)
    \/ \E p \in Procs, i \in 1..MaxLen, outcome \in Outcomes : fetch_product_data_done(p, i, outcome)
    \/ \E p \in Procs : get_product_data_endpoint_gather(p)
    \/ \E p \in Procs : get_product_data_endpoint_finish(p)
    \/ \E p \in Procs, search_term \in SearchTerms, pages \in 0..MaxPages :
          get_auctions_start(p, search_term, pages)
    \/ \E p \in Procs, i \in 1..MaxPages, outcome \in Outcomes, items \in 0..MaxItems :
          fetch_page_done(p, i, outcome, items)
    \/ \E p \in Procs : get_auctions_gather(p)
    \/ \E p \in Procs : get_auctions_finish(p)

Spec == Init /\ [][Next]_vars

\* The event loop runs the sweeper task whenever its sleep has ended (the
\* task is created at startup, line 397, and never returns).  Every pass
\* changes next_sweep.
FairSpec == Init /\ [][Next]_vars /\ WF_next_sweep(clean_expired_cache)

SeqSpec == InitSeq /\ [][Next]_vars

\* ================================================================ claims
\* The request p receives in this step, and the steps in which it returns.
Receives(p) ==
    /\ started' = started + 1
    /\ Idle(p)
    /\ \A q \in Procs : q < p => ~Idle(q)

\* An entry for key exists in cache and its age at time now is within TTL.
Fresh(cache, key, now) ==
    key \in DOMAIN cache /\ now - cache[key].timestamp <= CACHE_EXPIRY_TIME

Expired(cache, key, now) ==
    key \in DOMAIN cache /\ now - cache[key].timestamp > CACHE_EXPIRY_TIME

\* The namespace a request's handler reads first, before and after a step.
NamespaceOf(r) ==
    CASE r.kind = "single" -> product_cache
      [] r.kind = "batch" -> product_data_cache
      [] OTHER -> auction_cache

NamespaceOfNext(r) ==
    CASE r.kind = "single" -> product_cache'
      [] r.kind = "batch" -> product_data_cache'
      [] OTHER -> auction_cache'

SameBag(s, t) ==
    /\ Len(s) = Len(t)
    /\ \E f \in Permutations(1..Len(s)) : \A i \in 1..Len(s) : t[i] = s[f[i]]

Range(s) == {s[i] : i \in 1..Len(s)}

\* The key under which a request's handler reads its namespace.
KeyOf(r) ==
    CASE r.kind = "single" -> r.product_link
      [] r.kind = "batch" -> batch_cache_key(r.auction_list)
      [] OTHER -> auction_cache_key(r.search_term, r.pages)

BatchMiss(p) ==
    /\ pc[p] = "done"
    /\ req[p].kind = "batch"
    /\ cached_data[p] = None
    /\ response[p].status = 200

\* C1: a POST /product-data call that misses the batch cache returns exactly
\* one record per input identifier, the i-th record being the record of the
\* i-th input identifier (stated for requests whose identifiers are all
\* non-empty).
C1_InputOrder ==
    \A p \in Procs :
        (BatchMiss(p) /\ 0 \notin Range(req[p].auction_list)) =>
            /\ Len(response[p].body.list) = Len(req[p].auction_list)
            /\ \A i \in 1..Len(req[p].auction_list) :
                   response[p].body.list[i].product_link = req[p].auction_list[i]

\* C2: a Transport failure for one identifier never raises out of batch or
\* single-item resolution and never aborts the sibling fetches: the call
\* returns normally after every launched fetch has completed, with one record
\* per fetched identifier, carrying an error field exactly when the Transport
\* failed for it.
C2_FailureIsolated ==
    \A p \in Procs :
        (pc[p] = "done" /\ req[p].kind \in {"single", "batch"}) =>
            /\ response[p].status = 200
            /\ \A i \in 1..Len(transport[p]) : transport[p][i].outcome # "pending"
            /\ req[p].kind = "single" =>
                   \A i \in 1..Len(transport[p]) :
                       /\ response[p].body.dict.product_link = transport[p][i].target
                       /\ HasError(response[p].body.dict) <=> transport[p][i].outcome # "ok"
            /\ req[p].kind = "batch" =>
                   /\ cached_data[p] = None =>
                          Len(response[p].body.list) = Len(non_empty_links(req[p].auction_list))
                   /\ \A i \in 1..Len(transport[p]) :
                          \E j \in 1..Len(response[p].body.list) :
                              /\ response[p].body.list[j].product_link = transport[p][i].target
                              /\ HasError(response[p].body.list[j]) <=> transport[p][i].outcome # "ok"

\* The batch [A, B] for which the Transport failed for A and succeeded for B
\* has returned two records.
C2_Witness ==
    \E p \in Procs :
        /\ pc[p] = "done"
        /\ req[p].kind = "batch"
        /\ req[p].auction_list = <<1, 2>>
        /\ Len(transport[p]) = 2
        /\ transport[p][1].outcome = "exception"
        /\ transport[p][2].outcome = "ok"
        /\ Len(response[p].body.list) = 2

\* C3: when the single-item namespace holds a valid entry for X, GET
\* /single-product for X returns that entry's value and makes no Transport
\* call.
C3_SingleHit ==
    [][\A p \in Procs, url \in Urls :
          (/\ Receives(p)
           /\ req'[p] = [kind |-> "single", product_link |-> url]
           /\ Fresh(product_cache, url, clock))
          => /\ pc'[p] = "done"
             /\ response'[p] = [status |-> 200, body |-> product_cache[url].data]
             /\ transport'[p] = <<>>]_vars

\* A GET /single-product was served from an entry whose age is exactly TTL.
C3_Witness ==
    \E p \in Procs :
        /\ pc[p] = "done"
        /\ req[p].kind = "single"
        /\ transport[p] = <<>>
        /\ response[p].status = 200
        /\ clock - response[p].body.dict.fetched_at = CACHE_EXPIRY_TIME
        /\ started = MaxRequests

\* C4: a cache read returns the stored value if and only if an entry exists
\* for the key and now - insertedAt <= TTL; otherwise it returns absence.
\* Stated for the first read of each handler, in each of the three namespaces.
C4_ReadValidity ==
    [][\A p \in Procs :
          Receives(p) =>
              LET cache == NamespaceOf(req'[p])
                  key == KeyOf(req'[p])
              IN  cached_data'[p] =
                      IF Fresh(cache, key, clock) THEN Some(cache[key].data) ELSE None]_vars

\* A handler's read has returned a stored value.
C4_Witness ==
    \E p \in Procs :
        /\ pc[p] = "done"
        /\ cached_data[p] # None
        /\ transport[p] = <<>>
        /\ response[p].status = 200

\* C5 as claimed: a read that meets an expired entry removes the key from its
\* namespace.  Stated for the reads after which the handler suspends, so
\* that the step writes nothing after the read.
C5_ReadEvicts ==
    [][\A p \in Procs :
          (/\ Receives(p)
           /\ Expired(NamespaceOf(req'[p]), KeyOf(req'[p]), clock)
           /\ pc'[p] # "done")
          => KeyOf(req'[p]) \notin DOMAIN NamespaceOfNext(req'[p])]_vars

\* C5 as amended: a read that meets an expired entry reports a miss and does
\* not remove the key; when the handler's step ends the namespace holds the
\* key, with the expired entry or with an entry written at the time of the
\* read.
C5_ExpiredReadKeepsEntry ==
    [][\A p \in Procs :
          (Receives(p) /\ Expired(NamespaceOf(req'[p]), KeyOf(req'[p]), clock))
          => LET key == KeyOf(req'[p])
                 before == NamespaceOf(req'[p])
                 after == NamespaceOfNext(req'[p])
             IN  /\ cached_data'[p] = None
                 /\ key \in DOMAIN after
                 /\ after[key] = before[key] \/ after[key].timestamp = clock]_vars

\* The second GET /single-product of a link has read the entry the first one
\* wrote, found it expired and gone on to fetch; the entry is still there.
C5_Witness ==
    /\ started = 2
    /\ pc[1] = "single_fetch"
    /\ \A q \in Procs : q # 1 => pc[q] = "idle"
    /\ cached_data[1] = None
    /\ Expired(product_cache, req[1].product_link, clock)

\* C6: the batch cache key does not depend on the order of the request: every
\* permutation of the request's list has the key the handler derived.
C6_KeyOrderIndependent ==
    \A p \in Procs :
        req[p].kind = "batch" =>
            \A l \in AuctionLists :
                SameBag(l, req[p].auction_list) => batch_cache_key(l) = cache_key[p][1]

\* A request whose two links are not in sorted order has had its key derived.
C6_Witness ==
    \E p \in Procs :
        /\ req[p].kind = "batch"
        /\ req[p].auction_list = <<2, 1>>
        /\ cache_key[p] = Some([md5 |-> <<1, 2>>])

\* C7 as claimed: the batch cache key does not depend on duplication: every
\* list with the same set of identifiers has the key the handler derived.
C7_KeyIgnoresDuplicates ==
    \A p \in Procs :
        req[p].kind = "batch" =>
            \A l \in AuctionLists :
                Range(l) = Range(req[p].auction_list) =>
                    batch_cache_key(l) = cache_key[p][1]

\* C7 as amended: the key is that of the sorted list of the non-empty
\* identifiers with their repetitions: a list has the key the handler derived
\* if and only if it names the same non-empty identifiers the same number of
\* times.
C7_KeyOfMultiset ==
    \A p \in Procs :
        req[p].kind = "batch" =>
            \A l \in AuctionLists :
                batch_cache_key(l) = cache_key[p][1]
                    <=> SameBag(non_empty_links(l), non_empty_links(req[p].auction_list))

\* A request that names one link twice has had its key derived.
C7_Witness ==
    \E p \in Procs :
        /\ req[p].kind = "batch"
        /\ req[p].auction_list = <<1, 1>>
        /\ cache_key[p] = Some([md5 |-> <<1, 1>>])

\* C8: one sweep pass at captured time now removes from the three namespaces
\* exactly the entries with now - insertedAt > TTL, leaves the other entries
\* as they are, and keeps exactly the keys a read at that time would return.
SweptExactly(before, after) ==
    /\ DOMAIN after = {k \in DOMAIN before : clock - before[k].timestamp <= CACHE_EXPIRY_TIME}
    /\ \A k \in DOMAIN after : after[k] = before[k]
    /\ \A k \in DOMAIN before :
           k \in DOMAIN after <=> get_from_cache(before, k, clock).ret # None

C8_SweepExact ==
    [][next_sweep' # next_sweep =>
          /\ SweptExactly(product_cache, product_cache')
          /\ SweptExactly(auction_cache, auction_cache')
          /\ SweptExactly(product_data_cache, product_data_cache')]_vars

\* The sweep has run at the present time: the entry the first GET
\* /single-product wrote at time 0 is gone and the entry the second one wrote
\* for the other link is there.
C8_Witness ==
    /\ next_sweep = clock + SWEEP_INTERVAL
    /\ started = 2
    /\ pc[1] = "done"
    /\ \A q \in Procs : q # 1 => pc[q] = "idle"
    /\ req[1].kind = "single"
    /\ transport[1] # <<>>
    /\ DOMAIN product_cache = {req[1].product_link}
    /\ product_cache[req[1].product_link].timestamp = clock
    /\ DOMAIN product_data_cache = {}
    /\ DOMAIN auction_cache = {}
    /\ clock > CACHE_EXPIRY_TIME

\* C9: when the batch namespace holds a valid entry under the request's key,
\* POST /product-data returns the stored list, makes no Transport call and
\* writes to no namespace.
C9_BatchHitVerbatim ==
    [][\A p \in Procs, l \in AuctionLists :
          (/\ Receives(p)
           /\ req'[p] = [kind |-> "batch", auction_list |-> l]
           /\ Fresh(product_data_cache, batch_cache_key(l), clock))
          => /\ pc'[p] = "done"
             /\ response'[p] = [status |-> 200,
                                body |-> product_data_cache[batch_cache_key(l)].data]
             /\ transport'[p] = <<>>
             /\ UNCHANGED caches]_vars

\* C10: a cache write replaces any entry of its key by the new value with
\* insertedAt = now and changes no other key and no other namespace.  Stated
\* for the steps that end a request with one write.
Written(before, after, key, data) ==
    /\ DOMAIN after = DOMAIN before \cup {key}
    /\ after[key] = [data |-> data, timestamp |-> clock]
    /\ \A k \in DOMAIN before : k # key => after[k] = before[k]

C10_WriteReplaces ==
    [][\A p \in Procs :
          /\ (pc[p] = "single_fetch" /\ pc'[p] = "done") =>
                 /\ Written(product_cache, product_cache', req[p].product_link, response'[p].body)
                 /\ UNCHANGED <<auction_cache, product_data_cache>>
          /\ (pc[p] = "batch_assemble" /\ pc'[p] = "done") =>
                 /\ Written(product_data_cache, product_data_cache', cache_key[p][1], response'[p].body)
                 /\ UNCHANGED <<auction_cache, product_cache>>
          /\ (pc[p] = "auctions_parse" /\ pc'[p] = "done") =>
                 /\ Written(auction_cache, auction_cache', cache_key[p][1], response'[p].body)
                 /\ UNCHANGED <<product_cache, product_data_cache>>]_vars

\* Two GET /single-product of one link have both fetched and written at the
\* same time, with different records: the later write replaced a valid entry.
C10_Witness ==
    \E p, q \in Procs :
        /\ p # q
        /\ pc[p] = "done" /\ pc[q] = "done"
        /\ req[p].kind = "single" /\ req[q] = req[p]
        /\ transport[p] # <<>> /\ transport[q] # <<>>
        /\ response[p].body # response[q].body
        /\ response[p].body.dict.fetched_at = response[q].body.dict.fetched_at
        /\ product_cache[req[p].product_link].data = response[p].body

\* C11: a step that writes an entry to the single-item cache (GET
\* /single-product storing its result, or POST /product-data storing the
\* results of its fetches) removes no entry of the batch cache and changes
\* none, even one whose key names the written link.
C11_SingleWriteKeepsBatch ==
    [][/\ \A p \in Procs :
              \/ pc[p] = "single_fetch" /\ pc'[p] = "done"
              \/ pc[p] = "batch_gather" /\ pc'[p] = "batch_assemble"
              => product_data_cache' = product_data_cache
       /\ (\E u \in DOMAIN product_cache' :
               u \notin DOMAIN product_cache \/ product_cache'[u] # product_cache[u])
              => product_data_cache' = product_data_cache]_vars

\* A valid batch entry names a link whose single-item entry was written
\* after it and holds another record than the batch entry does.
C11_Witness ==
    \E k \in DOMAIN product_data_cache : \E i \in 1..Len(k.md5) :
        /\ Fresh(product_data_cache, k, clock)
        /\ k.md5[i] \in DOMAIN product_cache
        /\ product_cache[k.md5[i]].timestamp > product_data_cache[k].timestamp
        /\ \E j \in 1..Len(product_data_cache[k].data.list) :
               /\ product_data_cache[k].data.list[j].product_link = k.md5[i]
               /\ product_data_cache[k].data.list[j] # product_cache[k.md5[i]].data.dict

\* C12: no entry of the single-item cache holds an error record.
C12_NoErrorCached ==
    \A u \in DOMAIN product_cache : ~HasError(product_cache[u].data.dict)

\* C13: nothing limits the fetches of one link to one at a time: a
\* GET /single-product request that missed the single-item cache has its own
\* Transport call for its link, pending while it waits and completed when it
\* has returned, whatever the other requests are doing.
C13_EveryMissFetches ==
    \A p \in Procs :
        /\ pc[p] = "single_fetch" =>
               /\ Len(transport[p]) = 1
               /\ transport[p][1] = [target |-> req[p].product_link, outcome |-> "pending"]
        /\ (pc[p] = "done" /\ req[p].kind = "single" /\ cached_data[p] = None) =>
               /\ Len(transport[p]) = 1
               /\ transport[p][1].target = req[p].product_link
               /\ transport[p][1].outcome # "pending"

\* Two requests for the same link have both missed the single-item cache,
\* neither has written, and each has a Transport call pending.
C13_Witness ==
    \E p, q \in Procs :
        /\ p # q
        /\ pc[p] = "single_fetch" /\ pc[q] = "single_fetch"
        /\ req[p].product_link = req[q].product_link
        /\ req[p].product_link \notin DOMAIN product_cache
        /\ transport[p][1].outcome = "pending" /\ transport[q][1].outcome = "pending"
        /\ transport[p][1].target = transport[q][1].target

\* The keys the three caches can hold.
ProductKeys == Urls
BatchKeys == {batch_cache_key(auction_list) : auction_list \in AuctionLists}
AuctionKeys == {auction_cache_key(search_term, pages) :
                   search_term \in SearchTerms, pages \in 0..MaxPages}

\* C14: with the sweeper task running, an entry of any of the three caches
\* that has expired is eventually removed or replaced by a fresh write,
\* whether or not a request reads its key again: for every key, again and
\* again the cache holds no expired entry under it.
C14_ExpiredEventuallyGone ==
    /\ \A k \in ProductKeys : []<>~Expired(product_cache, k, clock)
    /\ \A k \in AuctionKeys : []<>~Expired(auction_cache, k, clock)
    /\ \A k \in BatchKeys : []<>~Expired(product_data_cache, k, clock)

\* The sweeper has removed an expired entry from each of the three caches
\* in one pass, and no request was received after the entries had expired.
C14_Witness ==
    /\ clock > CACHE_EXPIRY_TIME
    /\ next_sweep = clock + SWEEP_INTERVAL
    /\ product_cache = <<>> /\ auction_cache = <<>> /\ product_data_cache = <<>>
    /\ started = MaxRequests
    /\ \E p, q \in Procs :
           /\ pc[p] = "done" /\ req[p].kind = "batch" /\ Len(transport[p]) = 1
           /\ pc[q] = "done" /\ req[q].kind = "auctions" /\ Len(transport[q]) = 1
           /\ response[p].status = 200 /\ response[q].status = 200

\* The links of auction_list, occurrence by occurrence, for which the
\* single-item cache holds no valid entry at time now.
Misses(auction_list, cache, now) ==
    LET Miss(url) == url # 0 /\ ~Fresh(cache, url, now)
    IN  SelectSeq(auction_list, Miss)

\* C15: a POST /product-data call that misses the batch cache calls the
\* Transport once for each occurrence of a link that has no valid single-item
\* entry when the list is partitioned, and for no link that has one; while
\* the call goes on, no call is added and a completed call is not repeated.
C15_FetchesExactlyMisses ==
    [][\A p \in Procs :
          /\ \A l \in AuctionLists :
                 (/\ Receives(p)
                  /\ req'[p] = [kind |-> "batch", auction_list |-> l]
                  /\ ~Fresh(product_data_cache, batch_cache_key(l), clock))
                 => transport'[p] = Calls(Misses(l, product_cache, clock))
          /\ pc[p] \in {"batch_gather", "batch_assemble"} =>
                 /\ Len(transport'[p]) = Len(transport[p])
                 /\ \A i \in 1..Len(transport[p]) :
                        /\ transport'[p][i].target = transport[p][i].target
                        /\ transport[p][i].outcome # "pending"
                               => transport'[p][i] = transport[p][i]]_vars

\* The batch [A, B] has returned two records after one Transport call, for
\* B: the record of A came from the valid entry an earlier request had
\* written to the single-item cache.
C15_Witness ==
    \E p \in Procs :
        /\ pc[p] = "done" /\ req[p] = [kind |-> "batch", auction_list |-> <<1, 2>>]
        /\ cached_data[p] = None
        /\ Len(transport[p]) = 1
        /\ transport[p][1].target = 2 /\ transport[p][1].outcome # "pending"
        /\ Len(response[p].body.list) = 2
        /\ 1 \in DOMAIN product_cache
        /\ \E i \in 1..2 : product_cache[1].data = dict(response[p].body.list[i])
        /\ started = 2

\* The steps in which a POST /product-data call writes its batch entry and
\* returns: at once when nothing is to be fetched, or after the gather.
BatchReturns(p) ==
    \/ Receives(p) /\ req'[p].kind = "batch" /\ pc'[p] = "done" /\ ~truthy_list(cached_data'[p])
    \/ pc[p] = "batch_assemble" /\ pc'[p] = "done"

\* C16: a POST /product-data call reads the batch cache, then the single-item
\* cache, then writes the single-item cache, then the batch cache.  The
\* gather ends only when every fetch has completed, and its step writes each
\* fetched record to the single-item cache and leaves the batch cache alone;
\* the batch cache is written by no other step of a request than the one that
\* returns, and that step leaves under the request's key exactly the list it
\* returns.
C16_BatchWriteLast ==
    [][/\ \A p \in Procs :
              /\ pc[p] = "batch_gather" =>
                     /\ pc'[p] \in {"batch_gather", "batch_assemble"}
                     /\ new_data'[p] # new_data[p] => UNCHANGED caches
                     /\ pc'[p] = "batch_assemble" =>
                            /\ product_data_cache' = product_data_cache
                            /\ \A i \in 1..Len(transport[p]) :
                                   /\ transport[p][i].outcome # "pending"
                                   /\ transport[p][i].target \in DOMAIN product_cache'
                                   /\ \E j \in 1..Len(transport[p]) :
                                          /\ transport[p][j].target = transport[p][i].target
                                          /\ product_cache'[transport[p][i].target] =
                                                 [data |-> dict(new_data[p][j][1].value),
                                                  timestamp |-> clock]
              /\ pc[p] = "batch_assemble" => pc'[p] \in {"batch_assemble", "done"}
              /\ BatchReturns(p) =>
                     /\ \A i \in 1..Len(transport'[p]) : transport'[p][i].outcome # "pending"
                     /\ response'[p].status = 200
                     /\ KeyOf(req'[p]) \in DOMAIN product_data_cache'
                     /\ product_data_cache'[KeyOf(req'[p])] =
                            [data |-> response'[p].body, timestamp |-> clock]
       /\ (product_data_cache' # product_data_cache /\ next_sweep' = next_sweep)
              => \E p \in Procs : BatchReturns(p)]_vars

\* The batch [A, B] has gone through the four stages: both fetches completed,
\* both records are in the single-item cache and the batch entry holds the
\* list returned.
C16_Witness ==
    \E p \in Procs :
        /\ pc[p] = "done" /\ req[p] = [kind |-> "batch", auction_list |-> <<2, 1>>]
        /\ Len(transport[p]) = 2
        /\ \A i \in 1..2 : /\ i \in DOMAIN product_cache
                             /\ \E j \in 1..2 : product_cache[i].data = dict(response[p].body.list[j])
        /\ cache_key[p][1] \in DOMAIN product_data_cache
        /\ product_data_cache[cache_key[p][1]].data = response[p].body

\* C17: a cache read that finds a valid entry changes nothing: the read
\* leaves its cache as it was, entry and insertedAt included, and the step of
\* a handler that serves or partitions from valid entries leaves the three
\* caches unchanged; a key leaves a cache only in a pass of the sweeper.  (The
\* step of POST /product-data that reads a valid empty list is left out: it
\* goes on to write.)
C17_ValidReadChangesNothing ==
    [][/\ \A k \in ProductKeys :
              Fresh(product_cache, k, clock) =>
                  get_from_cache(product_cache, k, clock).cache = product_cache
       /\ \A k \in AuctionKeys :
              Fresh(auction_cache, k, clock) =>
                  get_from_cache(auction_cache, k, clock).cache = auction_cache
       /\ \A k \in BatchKeys :
              Fresh(product_data_cache, k, clock) =>
                  get_from_cache(product_data_cache, k, clock).cache = product_data_cache
       /\ \A p \in Procs :
              /\ (/\ Receives(p)
                  /\ Fresh(NamespaceOf(req'[p]), KeyOf(req'[p]), clock)
                  /\ ~(/\ req'[p].kind = "batch"
                       /\ product_data_cache[KeyOf(req'[p])].data = list(<<>>)))
                 => UNCHANGED caches
              /\ (Receives(p) /\ pc'[p] = "batch_gather") => UNCHANGED caches
       /\ (\/ DOMAIN product_cache \ DOMAIN product_cache' # {}
           \/ DOMAIN auction_cache \ DOMAIN auction_cache' # {}
           \/ DOMAIN product_data_cache \ DOMAIN product_data_cache' # {})
              => next_sweep' # next_sweep]_vars

\* A GET /single-product has been served from an entry of age TTL, and the
\* entry is there as it was written.
C17_Witness ==
    \E p \in Procs :
        /\ pc[p] = "done" /\ req[p].kind = "single"
        /\ transport[p] = <<>>
        /\ cached_data[p] # None
        /\ req[p].product_link \in DOMAIN product_cache
        /\ product_cache[req[p].product_link] =
               [data |-> cached_data[p][1], timestamp |-> clock - CACHE_EXPIRY_TIME]

\* C18: a request whose key has a valid entry in its handler's cache is
\* served from the cache whatever the stored value is: the handler makes no
\* Transport call, also when the stored value is an empty list.
C18_ValidEntryServed ==
    [][\A p \in Procs :
          (Receives(p) /\ Fresh(NamespaceOf(req'[p]), KeyOf(req'[p]), clock))
          => transport'[p] = <<>>]_vars

\* The records a response body returns.
Records(body) ==
    IF "dict" \in DOMAIN body THEN {body.dict} ELSE Range(body.list)

\* C19: no record returned by GET /single-product or POST /product-data is
\* older than TTL: the Transport call that produced it was made at most TTL
\* before the response.  Stated for the records of successful fetches.
C19_NoStaleRecord ==
    [][\A p \in Procs :
          (/\ pc'[p] = "done"
           /\ Receives(p) \/ pc[p] # "done"
           /\ req'[p].kind \in {"single", "batch"}
           /\ response'[p].status = 200)
          => \A record \in Records(response'[p].body) :
                 ~HasError(record) => clock - record.fetched_at <= CACHE_EXPIRY_TIME]_vars

\* The pages of the GET /auctions call of p whose fetch has failed.
FailedPages(p) ==
    {i \in 1..Len(transport[p]) : transport[p][i].outcome \in {"status", "exception"}}

\* C20: when the fetch of one page of a GET /auctions call fails, the call
\* ends with an error and returns no list, and none of its steps changes any
\* of the three caches: the call goes on to parse and store only when no
\* page has failed.
C20_PageFailureFailsAll ==
    [][\A p \in Procs :
          /\ (pc[p] = "auctions_gather" /\ FailedPages(p) # {}) =>
                 /\ pc'[p] \in {"auctions_gather", "done"}
                 /\ pc'[p] = "done" =>
                        /\ response'[p].status \in {404, 500}
                        /\ DOMAIN response'[p] = {"status"}
                        /\ UNCHANGED caches
          /\ (pc[p] = "auctions_gather" /\ pc'[p] = "auctions_parse") =>
                 \A i \in 1..Len(transport[p]) : transport[p][i].outcome = "ok"
          /\ (Receives(p) /\ pc'[p] = "auctions_gather") => UNCHANGED caches
          /\ (pc[p] = "auctions_gather" /\ <<pc'[p], new_data'[p]>> # <<pc[p], new_data[p]>>)
                 => UNCHANGED caches]_vars

\* A GET /auctions call for two pages has ended with an error after one page
\* had been fetched and the other had failed; the auctions cache holds
\* nothing under its key.
C20_Witness ==
    \E p \in Procs :
        /\ pc[p] = "done" /\ req[p].kind = "auctions" /\ req[p].pages = 2
        /\ \E i, j \in 1..2 : /\ transport[p][i].outcome = "ok"
                              /\ transport[p][j].outcome \in {"status", "exception"}
        /\ response[p].status \in {404, 500}
        /\ KeyOf(req[p]) \notin DOMAIN auction_cache


====
